---- MODULE Spec2Model ----
(***************************************************************************)
(* arxiv-frontpage: the content curation pipeline of frontpage/datastream  *)
(* (DataStream).  Three state machines share this module:                  *)
(*   Spec         the site build: get_site_stream (the upper_limit         *)
(*                generator, one loop iteration per step) followed by      *)
(*                get_site_content;                                        *)
(*   SpecArchive  the download folder, the clean archive written by        *)
(*                save_clean_download_stream, and the lunr index;          *)
(*   SpecTrain    the per-label annotation files and get_train_stream.     *)
(* Strings that the code slices or compares (created) are sequences of     *)
(* numbers: <<day, time>> is a full timestamp and <<day>> its first ten    *)
(* characters.                                                             *)
(***************************************************************************)
EXTENDS Integers, Sequences, FiniteSets, TLC

VARIABLES
    pc,        \* position of the site build
    recs,      \* records pulled from the clean stream so far (the ex objects)
    sent,      \* index of the current entry of ex['preds'] (0: none)
    pos,       \* index of the current (name, proba) item of that entry
    tracker,   \* upper_limit.tracker
    emitted,   \* the objects yielded by upper_limit, as indices into recs
    site,      \* result of get_site_content: label -> content list
    raw,       \* DOWNLOADS_FOLDER: the files in glob order, each a list of records
    clean,     \* CLEAN_DOWNLOADS_FOLDER: partition name -> list of records
    lunr,      \* the lunr index file: <<>>, or <<the documents it was built from>>
    found,     \* <<>>, or <<the result of the last get_lunr_stream>>
    runs,      \* save_clean_download_stream runs since the last download
    S,         \* a stream handed to the deduplication of the raw stream
    deduped,   \* <<>>, or <<what that deduplication returned>>
    annot,     \* ANNOT_FOLDER: label -> list of annotation records
    examples   \* <<>>, or <<the result of the last get_train_stream>>

siteVars  == <<pc, recs, sent, pos, tracker, emitted, site>>
archVars  == <<raw, clean, lunr, found, runs>>
dedupVars == <<S, deduped>>
trainVars == <<annot, examples>>
vars      == <<pc, recs, sent, pos, tracker, emitted, site,
               raw, clean, lunr, found, runs, S, deduped, annot, examples>>

-----------------------------------------------------------------------------
(* Bounds of the model and the configuration.                              *)

\* upper_limit.limit; the code sets 50, the model scales it down
limit == 2
\* entries of ex['preds'] (sentences of one abstract)
MaxSents == 2

\* files in DOWNLOADS_FOLDER
MaxFiles == 2
\* length of a stream handed to the deduplication
MaxLen == 3

\* records in one annotation file
MaxAnnot == 2

\* constants.LABELS, in the order the code iterates them
LABELS == <<"l1", "l2">>
LabelSet == {LABELS[n] : n \in 1..Len(LABELS)}
\* the probabilities of ex['preds'], on a three-point scale
Probas == {0, 1, 2}
\* constants.THRESHOLDS
THRESHOLDS == [l \in LabelSet |-> IF l = "l1" THEN 1 ELSE 0]
Abstracts == {"a", "b"}
\* records of the clean archive: created is the day; "a" is archived under
\* two days (NoAbstractTwiceInCleanStream below is violated by SpecArchive)
CleanRecords ==
    {[abstract |-> "a", created |-> <<2>>],
     [abstract |-> "b", created |-> <<2>>],
     [abstract |-> "a", created |-> <<1>>]}
None == "None"
\* full timestamps str(res.published)[:19]: <<day, time of day>>
RawCreated == {<<1, 0>>, <<1, 1>>, <<2, 0>>}
Texts == {"t1", "t2"}
Answers == {"accept", "reject", "ignore"}
\* llm_annotate._to_categories (lines 24-28): 1 for the chosen label
to_categories(label) == [lab \in LabelSet |-> IF lab = label THEN 1 ELSE 0]
\* the lines a file <label>.jsonl can hold: a judgment {text, label, answer},
\* a line written by llm_annotate.run {text, categories}, a legacy {text, cats}
AnnotLines(label) ==
    [text : Texts, label : {label}, answer : Answers] \cup
    {[text |-> "t1", categories |-> to_categories(label)]} \cup
    {[text |-> "t2", cats |-> to_categories(label)]}
\* records of the raw download stream
RawRecords == [abstract : Abstracts, created : RawCreated]
\* a downloaded file: the new articles of one run, one or two of them
RawFiles ==
    {<<r>> : r \in RawRecords} \cup
    {<<[abstract |-> "a", created |-> <<2, 0>>],
       [abstract |-> "b", created |-> <<2, 0>>]>>,
     <<[abstract |-> "b", created |-> <<1, 1>>],
       [abstract |-> "a", created |-> <<1, 0>>]>>}

-----------------------------------------------------------------------------
(* Helpers shared by the pipelines.                                        *)

\* Python's < on strings, here on sequences of numbers
RECURSIVE StrLess(_, _)
StrLess(s, t) ==
    IF t = <<>> THEN FALSE
    ELSE IF s = <<>> THEN TRUE
    ELSE IF Head(s) # Head(t) THEN Head(s) < Head(t)
    ELSE StrLess(Tail(s), Tail(t))

StrLE(s, t) == s = t \/ StrLess(s, t)

\* s[:10] of a timestamp: the date part
Day10(s) == SubSeq(s, 1, IF Len(s) < 1 THEN Len(s) ELSE 1)

RECURSIVE reversed(_)
reversed(s) == IF s = <<>> THEN <<>> ELSE Append(reversed(Tail(s)), Head(s))

\* utils.dedup_stream: each record the first time its key value is seen
RECURSIVE dedup_from(_, _, _)
dedup_from(stream, key, seen) ==
    IF stream = <<>> THEN <<>>
    ELSE IF Head(stream)[key] \in seen
         THEN dedup_from(Tail(stream), key, seen)
         ELSE <<Head(stream)>> \o
              dedup_from(Tail(stream), key, seen \cup {Head(stream)[key]})

dedup_stream(stream, key) == dedup_from(stream, key, {})

\* sorted(s, key=lambda d: d[key]): Python's stable ascending sort
RECURSIVE insert_sorted(_, _, _)
insert_sorted(s, x, key) ==
    IF s = <<>> THEN <<x>>
    ELSE IF StrLess(x[key], Head(s)[key]) THEN <<x>> \o s
    ELSE <<Head(s)>> \o insert_sorted(Tail(s), x, key)

RECURSIVE sorted_from(_, _, _)
sorted_from(s, key, acc) ==
    IF s = <<>> THEN acc
    ELSE sorted_from(Tail(s), key, insert_sorted(acc, Head(s), key))

sorted(s, key) == sorted_from(s, key, <<>>)

-----------------------------------------------------------------------------
(* Site build: DataStream.get_site_stream and DataStream.get_site_content. *)

\* line 167: the guard of one (name, proba) item
QualifiesAnyQuota(name, proba, trk) ==
    name \in DOMAIN trk /\ proba > THRESHOLDS[name]

QualifiesAtThreshold(name, proba, trk) ==
    name \in DOMAIN trk /\ proba >= THRESHOLDS[name] /\ trk[name] < limit

Qualifies(name, proba, trk) ==
    name \in DOMAIN trk /\ proba > THRESHOLDS[name] /\ trk[name] < limit

\* lines 169-172: sections after appending name, list(set(...)) as a set
OverwriteSection(sections, name) == {name}

AddSection(sections, name) == sections \cup {name}

\* line 174
AllFull(trk) == \A l \in DOMAIN trk : trk[l] = limit

\* the ex objects the yielded references point to, as collect() sees them
Collected(em, rs) ==
    [n \in 1..Len(em) |->
        [abstract |-> rs[em[n]].abstract,
         created  |-> rs[em[n]].created,
         sections |-> rs[em[n]].sections]]

\* lines 202-208: the bucket of one section
RECURSIVE Bucket(_, _)
Bucket(stream, section) ==
    IF stream = <<>> THEN <<>>
    ELSE IF section \in Head(stream).sections
         THEN <<Head(stream)>> \o Bucket(Tail(stream), section)
         ELSE Bucket(Tail(stream), section)

\* line 212
ContentAscending(uniq) == sorted(uniq, "created")

ContentOrder(uniq) == reversed(sorted(uniq, "created"))

\* lines 186-214
get_site_content_nodedup(stream) ==
    [section \in LabelSet |-> ContentOrder(Bucket(stream, section))]

get_site_content(stream) ==
    LET site_stream == dedup_stream(stream, "abstract")
    IN  [section \in LabelSet |->
            ContentOrder(dedup_stream(Bucket(site_stream, section), "abstract"))]

\* the clean stream is newest partition first, and one partition holds an
\* abstract once (CleanStreamShape below)
CanFollow(rs, a, c) ==
    /\ rs # <<>> => StrLE(c, rs[Len(rs)].created)
    /\ \A n \in 1..Len(rs) : ~(rs[n].abstract = a /\ rs[n].created = c)

InitArchive ==
    /\ raw = <<>>
    /\ clean = <<>>
    /\ lunr = <<>>
    /\ found = <<>>
    /\ runs = 0

InitDedupIdle ==
    /\ S = <<>>
    /\ deduped = <<>>

InitTrainIdle ==
    /\ annot = [l \in LabelSet |-> <<>>]
    /\ examples = <<>>

InitSite ==
    /\ pc = "pull"
    /\ recs = <<>>
    /\ sent = 0
    /\ pos = 0
    /\ tracker = [lab \in LabelSet |-> 0]
    /\ emitted = <<>>
    /\ site = None

Init == InitSite /\ InitArchive /\ InitDedupIdle /\ InitTrainIdle

\* line 164: the for loop takes the next record of the stream
Pull ==
    /\ pc = "pull"
    /\ \E r \in CleanRecords :
          /\ CanFollow(recs, r.abstract, r.created)
          /\ recs' = Append(recs, [abstract |-> r.abstract, created |-> r.created,
                                   best |-> [l \in LabelSet |-> 0],
                                   sections |-> {}])
    /\ pc' = "sentence"
    /\ sent' = 0
    /\ pos' = 0
    /\ UNCHANGED <<tracker, emitted, site>>
    /\ UNCHANGED <<archVars, dedupVars, trainVars>>

\* line 164: the stream (at most head(1000) records of it) is exhausted
EndOfStream ==
    /\ pc = "pull"
    /\ pc' = "done"
    /\ UNCHANGED <<recs, sent, pos, tracker, emitted, site>>
    /\ UNCHANGED <<archVars, dedupVars, trainVars>>

\* line 165: the next entry of ex['preds'], or the end of the list
NextSentence ==
    /\ pc = "sentence"
    /\ \/ /\ sent < MaxSents
          /\ sent' = sent + 1
          /\ pos' = 1
          /\ pc' = "item"
       \/ /\ sent' = 0
          /\ pos' = 0
          /\ pc' = "check"
    /\ UNCHANGED <<recs, tracker, emitted, site>>
    /\ UNCHANGED <<archVars, dedupVars, trainVars>>

\* lines 166-173: one (name, proba) item of the current entry; the
\* probability is drawn when the loop reads it, and best keeps the greatest
\* probability the record has shown for each label
Item ==
    /\ pc = "item"
    /\ \E proba \in Probas :
          LET name == LABELS[pos]
              ex   == recs[Len(recs)]
              seen == [ex EXCEPT !.best[name] =
                          IF proba > @ THEN proba ELSE @]
          IN  IF Qualifies(name, proba, tracker)
              THEN /\ tracker' = [tracker EXCEPT ![name] = @ + 1]
                   /\ recs' = [recs EXCEPT ![Len(recs)] =
                          [seen EXCEPT !.sections = AddSection(@, name)]]
                   /\ emitted' = Append(emitted, Len(recs))
              ELSE /\ recs' = [recs EXCEPT ![Len(recs)] = seen]
                   /\ UNCHANGED <<tracker, emitted>>
    /\ IF pos < Len(LABELS)
       THEN pos' = pos + 1 /\ pc' = "item"
       ELSE pos' = 0 /\ pc' = "sentence"
    /\ UNCHANGED <<sent, site>>
    /\ UNCHANGED <<archVars, dedupVars, trainVars>>

\* lines 174-175
Check ==
    /\ pc = "check"
    /\ pc' = IF AllFull(tracker) THEN "done" ELSE "pull"
    /\ UNCHANGED <<recs, sent, pos, tracker, emitted, site>>
    /\ UNCHANGED <<archVars, dedupVars, trainVars>>

\* lines 186-214 on the collected stream
Build ==
    /\ pc = "done"
    /\ site' = get_site_content(Collected(emitted, recs))
    /\ pc' = "built"
    /\ UNCHANGED <<recs, sent, pos, tracker, emitted>>
    /\ UNCHANGED <<archVars, dedupVars, trainVars>>

NextSite ==
    \/ Pull
    \/ EndOfStream
    \/ NextSentence
    \/ Item
    \/ Check
    \/ Build

Spec == Init /\ [][NextSite]_vars

-----------------------------------------------------------------------------
(* Archive: the download folder, save_clean_download_stream, the clean     *)
(* stream and the lunr index (abstract level).                             *)

\* it.chain(*files)
RECURSIVE chain(_)
chain(files) == IF files = <<>> THEN <<>> ELSE Head(files) \o chain(Tail(files))

\* lines 21-27
get_raw_download_stream(files) == chain(reversed(files))

\* line 30: the deduplication of the raw stream
raw_dedup_by_created(stream) == dedup_stream(stream, "created")

raw_dedup(stream) == dedup_stream(stream, "abstract")

\* line 31: LazyLines.mutate(created=lambda d: d['created'][:10])
RECURSIVE mutate_created(_)
mutate_created(stream) ==
    IF stream = <<>> THEN <<>>
    ELSE <<[Head(stream) EXCEPT !.created = Day10(@)]>> \o
         mutate_created(Tail(stream))

\* LazyLines.nest_by(key): one {key, subset} per key value, in the order the
\* values first appear; the key is deleted from the records of the subset
RECURSIVE nest_from(_, _, _)
nest_from(stream, key, groups) ==
    IF stream = <<>> THEN groups
    ELSE LET ex   == Head(stream)
             rest == [f \in (DOMAIN ex) \ {key} |-> ex[f]]
             at   == {g \in 1..Len(groups) : groups[g][key] = ex[key]}
         IN  IF at = {}
             THEN nest_from(Tail(stream), key,
                      Append(groups, (key :> ex[key]) @@ [subset |-> <<rest>>]))
             ELSE nest_from(Tail(stream), key,
                      [groups EXCEPT ![CHOOSE g \in at : TRUE].subset =
                          Append(@, rest)])

nest_by(stream, key) == nest_from(stream, key, <<>>)

\* line 35: the records written to the partition of one group
group_lines(group) ==
    [n \in 1..Len(group.subset) |->
        group.subset[n] @@ [created |-> group.created]]

\* lines 32-36 writing in append mode
write_partitions_append(nested, archive) ==
    [name \in (DOMAIN archive) \cup {nested[g].created : g \in 1..Len(nested)} |->
        IF \E g \in 1..Len(nested) : nested[g].created = name
        THEN (IF name \in DOMAIN archive THEN archive[name] ELSE <<>>) \o
             group_lines(nested[CHOOSE g \in 1..Len(nested) :
                                    nested[g].created = name])
        ELSE archive[name]]

\* lines 32-36: srsly.write_jsonl replaces the file of every group
write_partitions(nested, archive) ==
    [name \in (DOMAIN archive) \cup {nested[g].created : g \in 1..Len(nested)} |->
        IF \E g \in 1..Len(nested) : nested[g].created = name
        THEN group_lines(nested[CHOOSE g \in 1..Len(nested) :
                                    nested[g].created = name])
        ELSE archive[name]]

\* lines 29-37
save_clean_download_stream(files, archive) ==
    LET stream == raw_dedup(get_raw_download_stream(files))
        nested == nest_by(mutate_created(stream), "created")
    IN  write_partitions(nested, archive)

\* lines 39-45: the partitions, greatest file name first
RECURSIVE clean_from(_, _)
clean_from(archive, names) ==
    IF names = {} THEN <<>>
    ELSE LET top == CHOOSE n \in names : \A m \in names : StrLE(m, n)
         IN  archive[top] \o clean_from(archive, names \ {top})

get_clean_download_stream(archive) == clean_from(archive, DOMAIN archive)

\* lines 47-58, level "abstract"
get_download_stream(archive) ==
    LET stream == get_clean_download_stream(archive)
    IN  [n \in 1..Len(stream) |->
            [text |-> stream[n].abstract, created |-> Day10(stream[n].created)]]

\* utils.add_rownum: the sequential row number of each record, from 0
add_rownum(stream) ==
    [n \in 1..Len(stream) |-> stream[n] @@ [idx |-> n - 1]]

\* lines 131-132: the corpus handed to lunr(ref='idx', fields=('text',));
\* the index answers from idx and text only
lunr_documents(archive) == add_rownum(get_download_stream(archive))

\* Index.search: the refs of the indexed documents whose text matches
RECURSIVE search(_, _)
search(index, query) ==
    IF index = <<>> THEN <<>>
    ELSE IF Head(index).text = query
         THEN <<Head(index).idx>> \o search(Tail(index), query)
         ELSE search(Tail(index), query)

\* lines 102-105: documents[int(i['ref'])] for every hit
get_lunr_stream(index, archive, query) ==
    LET documents == lunr_documents(archive)
        hits      == search(index, query)
    IN  IF \A n \in 1..Len(hits) : hits[n] + 1 \in DOMAIN documents
        THEN [raised |-> "", hits |-> hits,
              docs |-> [n \in 1..Len(hits) |-> documents[hits[n] + 1]]]
        ELSE [raised |-> "IndexError", hits |-> hits, docs |-> <<>>]

\* download.py lines 85-88: a new file of new articles; glob lists a folder
\* in no defined order, so the file may show up anywhere in the listing
Download ==
    /\ Len(raw) < MaxFiles
    /\ \E file \in RawFiles : \E at \in 0..Len(raw) :
          raw' = SubSeq(raw, 1, at) \o <<file>> \o SubSeq(raw, at + 1, Len(raw))
    /\ runs' = 0
    /\ UNCHANGED <<clean, lunr, found>>
    /\ UNCHANGED <<siteVars, dedupVars, trainVars>>

\* __main__.py lines 32-36: preprocess
Preprocess ==
    /\ clean' = save_clean_download_stream(raw, clean)
    /\ runs' = IF runs < 2 THEN runs + 1 ELSE runs
    /\ UNCHANGED <<raw, lunr, found>>
    /\ UNCHANGED <<siteVars, dedupVars, trainVars>>

\* lines 129-136; a query result belongs to the index it was read from, so
\* the last result is forgotten when the index is replaced
CreateLunrIndex ==
    /\ lunr' = <<lunr_documents(clean)>>
    /\ found' = <<>>
    /\ UNCHANGED <<raw, clean, runs>>
    /\ UNCHANGED <<siteVars, dedupVars, trainVars>>

\* lines 96-105; without an index file open() raises
GetLunrStream ==
    /\ lunr # <<>>
    /\ \E query \in Abstracts :
          found' = <<get_lunr_stream(lunr[1], clean, query)>>
    /\ UNCHANGED <<raw, clean, lunr, runs>>
    /\ UNCHANGED <<siteVars, dedupVars, trainVars>>

NextArchive ==
    \/ Download
    \/ Preprocess
    \/ CreateLunrIndex
    \/ GetLunrStream

SpecArchive == Init /\ [][NextArchive]_vars

-----------------------------------------------------------------------------
(* The deduplication of line 30 as a function of its input stream.         *)

StreamsUpTo(n) == UNION {[1..m -> RawRecords] : m \in 0..n}

InitDedup ==
    /\ InitSite /\ InitArchive /\ InitTrainIdle
    /\ S \in StreamsUpTo(MaxLen)
    /\ deduped = <<>>

ApplyDedup ==
    /\ deduped = <<>>
    /\ deduped' = <<raw_dedup(S)>>
    /\ UNCHANGED S
    /\ UNCHANGED <<siteVars, archVars, trainVars>>

NextDedup == ApplyDedup

SpecDedup == InitDedup /\ [][NextDedup]_vars

-----------------------------------------------------------------------------
(* Training set: the annotation files and DataStream.get_train_stream.     *)

\* lines 90-93: the lines of one file, with the cats alias
RECURSIVE read_examples(_)
read_examples(lines) ==
    IF lines = <<>> THEN <<>>
    ELSE LET ex == Head(lines)
         IN  <<IF "categories" \notin DOMAIN ex /\ "cats" \in DOMAIN ex
               THEN ex @@ [categories |-> ex.cats]
               ELSE ex>> \o read_examples(Tail(lines))

\* lines 86-94: every line of every label's file, label by label
RECURSIVE train_from(_, _)
train_from(files, n) ==
    IF n > Len(LABELS) THEN <<>>
    ELSE read_examples(files[LABELS[n]]) \o train_from(files, n + 1)

get_train_stream(files) == train_from(files, 1)

\* lines 60-73 (called by nothing in the source): judgments to {text, label: outcome}
RECURSIVE sentence_data_to_train_format(_)
sentence_data_to_train_format(stream) ==
    IF stream = <<>> THEN <<>>
    ELSE LET ex == Head(stream)
             outcome == IF ex.answer = "accept" THEN 1
                        ELSE IF ex.answer = "reject" THEN 0 ELSE -1
         IN  (IF outcome # -1
              THEN <<("text" :> ex.text) @@ (ex.label :> outcome)>>
              ELSE <<>>) \o sentence_data_to_train_format(Tail(stream))

\* line 82: {k: v for ex in d['subset'] for k, v in ex.items()}
RECURSIVE merge_subset(_, _)
merge_subset(subset, acc) ==
    IF subset = <<>> THEN acc
    ELSE merge_subset(Tail(subset), Head(subset) @@ acc)

\* lines 75-84 (called by nothing in the source)
accumulate_train_stream(stream) ==
    LET nested == nest_by(stream, "text")
    IN  [n \in 1..Len(nested) |->
            [text |-> nested[n].text,
             categories |-> merge_subset(nested[n].subset, <<>>)]]

\* an annotation tool or llm_annotate.run (lines 67-70) writes a line
Annotate ==
    /\ \E label \in LabelSet :
          /\ Len(annot[label]) < MaxAnnot
          /\ \E line \in AnnotLines(label) :
                annot' = [annot EXCEPT ![label] = Append(@, line)]
    /\ examples' = <<>>
    /\ UNCHANGED <<siteVars, archVars, dedupVars>>

\* __main__.py lines 39-45: train reads the training set
GetTrainStream ==
    /\ examples' = <<get_train_stream(annot)>>
    /\ UNCHANGED annot
    /\ UNCHANGED <<siteVars, archVars, dedupVars>>

NextTrain ==
    \/ Annotate
    \/ GetTrainStream

SpecTrain == Init /\ [][NextTrain]_vars

-----------------------------------------------------------------------------
(* Properties of the site build, checked under Spec.                       *)

Assigned(l) == {n \in 1..Len(recs) : l \in recs[n].sections}

\* a record has an entry of preds whose probability for l exceeds the threshold
Exceeds(n, l) == recs[n].best[l] > THRESHOLDS[l]

\* C1: in every state of the upper_limit loop the running counter of a label
\* is at most the quota, and so is the number of distinct records whose
\* sections contain the label.
C1_QuotaBound ==
    \A l \in LabelSet :
        /\ tracker[l] <= limit
        /\ Cardinality(Assigned(l)) <= limit

\* the quota of a label is used up by distinct records and a further record
\* that exceeds the threshold is left out
C1_Witness ==
    \E l \in LabelSet :
        /\ Cardinality(Assigned(l)) = limit
        /\ \E n \in 1..Len(recs) : Exceeds(n, l) /\ l \notin recs[n].sections

\* C2: a label is in a record's sections only if some entry of the record's
\* preds has a probability for it strictly greater than its threshold.
C2_ThresholdGate ==
    \A n \in 1..Len(recs) : \A l \in LabelSet :
        l \in recs[n].sections => recs[n].best[l] > THRESHOLDS[l]

\* with quota left, a record whose best probability equals the threshold is
\* rejected while another record is assigned
C2_Witness ==
    /\ pc = "done"
    /\ \E l \in LabelSet :
          /\ tracker[l] < limit
          /\ Assigned(l) # {}
          /\ \E n \in 1..Len(recs) :
                /\ recs[n].best[l] > 0
                /\ recs[n].best[l] = THRESHOLDS[l]
                /\ l \notin recs[n].sections

\* C3: for records A before B in the stream that both exceed the threshold
\* of a label, B is assigned to the label only if A is.
C3_StreamOrder ==
    \A l \in LabelSet : \A i \in 1..Len(recs) : \A j \in 1..Len(recs) :
        (i < j /\ Exceeds(i, l) /\ Exceeds(j, l) /\ l \in recs[j].sections)
            => l \in recs[i].sections

\* the earlier record takes the quota and a later record with a higher score
\* is left out
C3_Witness ==
    \E l \in LabelSet : \E i \in 1..Len(recs) : \E j \in 1..Len(recs) :
        /\ i < j
        /\ Exceeds(i, l)
        /\ recs[j].best[l] > recs[i].best[l]
        /\ l \in recs[i].sections
        /\ l \notin recs[j].sections

\* C4: no content list returned by get_site_content holds two entries with
\* equal abstract.
C4_NoDuplicateAbstract ==
    pc = "built" =>
        \A l \in LabelSet : \A i \in 1..Len(site[l]) : \A j \in 1..Len(site[l]) :
            i < j => site[l][i].abstract # site[l][j].abstract

\* a record yielded more than once ends up in a content list
C4_Witness ==
    /\ pc = "built"
    /\ \E i \in 1..Len(emitted) : \E j \in 1..Len(emitted) :
          /\ i < j
          /\ emitted[i] = emitted[j]
          /\ \E l \in LabelSet : \E n \in 1..Len(site[l]) :
                site[l][n].abstract = recs[emitted[i]].abstract

\* C5: in every content list returned by get_site_content the created values
\* are non-increasing from the first entry to the last.
C5_NewestFirst ==
    pc = "built" =>
        \A l \in LabelSet : \A i \in 1..Len(site[l]) : \A j \in 1..Len(site[l]) :
            i < j => StrLE(site[l][j].created, site[l][i].created)

\* a content list with entries of two different days
C5_Witness ==
    /\ pc = "built"
    /\ \E l \in LabelSet : \E i \in 1..Len(site[l]) : \E j \in 1..Len(site[l]) :
          site[l][i].created # site[l][j].created

-----------------------------------------------------------------------------
(* Properties of the archive and of the deduplication.                     *)

\* the positions of a stream that hold the first occurrence of their key value
FirstIdx(stream, key) ==
    {i \in 1..Len(stream) : \A j \in 1..(i - 1) : stream[j][key] # stream[i][key]}

\* the subsequence of a stream at the positions idx, from position n on
RECURSIVE Pick(_, _, _)
Pick(stream, idx, n) ==
    IF n > Len(stream) THEN <<>>
    ELSE IF n \in idx THEN <<stream[n]>> \o Pick(stream, idx, n + 1)
    ELSE Pick(stream, idx, n + 1)

\* C6 (SpecDedup): the deduplication returns exactly the first occurrence of
\* each distinct key value, in the relative order they have in the input.
C6_FirstOccurrences ==
    deduped # <<>> => deduped[1] = Pick(S, FirstIdx(S, "abstract"), 1)

\* a later copy that differs from the first one is dropped, with two records kept
C6_Witness ==
    /\ deduped # <<>>
    /\ Len(deduped[1]) = 2
    /\ \E i \in 1..Len(S) : \E j \in 1..Len(S) :
          i < j /\ S[i].abstract = S[j].abstract /\ S[i] # S[j]

\* The clean stream that a site build reads (SpecArchive): newest day first,
\* and no abstract twice with the same created.
CleanStreamShape ==
    LET stream == get_clean_download_stream(clean)
    IN  \A i \in 1..Len(stream) : \A j \in 1..Len(stream) :
            i < j => /\ StrLE(stream[j].created, stream[i].created)
                     /\ ~(/\ stream[i].abstract = stream[j].abstract
                          /\ stream[i].created = stream[j].created)

\* a partition that no later run rewrote leaves an abstract twice in the
\* clean stream; stated as its negation, which SpecArchive violates
NoAbstractTwiceInCleanStream ==
    LET stream == get_clean_download_stream(clean)
    IN  \A i \in 1..Len(stream) : \A j \in 1..Len(stream) :
            i < j => stream[i].abstract # stream[j].abstract

\* C9 (SpecArchive): every hit of get_lunr_stream is mapped back to the
\* record that had the hit's row number in the corpus the index was built
\* from, whatever happened to the archive since the build.
C9_StableIdentifiers ==
    found # <<>> =>
        /\ found[1].raised = ""
        /\ \A n \in 1..Len(found[1].hits) :
              found[1].docs[n] = lunr[1][found[1].hits[n] + 1]

\* the deduplicated raw stream, with created cut to the day
CleanedRaw == mutate_created(dedup_stream(get_raw_download_stream(raw), "abstract"))

\* C10 (SpecArchive): once save_clean_download_stream has run on the raw
\* input, running it again changes neither the set of partitions nor any
\* partition; a partition written from the input holds exactly the input's
\* records of that day, and every record of partition d has created d.
C10_Idempotent ==
    runs >= 1 =>
        /\ save_clean_download_stream(raw, clean) = clean
        /\ \A name \in DOMAIN clean : \A n \in 1..Len(clean[name]) :
              clean[name][n].created = name
        /\ \A k \in 1..Len(CleanedRaw) :
              LET name == CleanedRaw[k].created
              IN  /\ name \in DOMAIN clean
                  /\ {clean[name][n] : n \in 1..Len(clean[name])} =
                        {CleanedRaw[m] : m \in {x \in 1..Len(CleanedRaw) :
                                                  CleanedRaw[x].created = name}}
                  /\ Len(clean[name]) =
                        Cardinality({x \in 1..Len(CleanedRaw) :
                                        CleanedRaw[x].created = name})

\* the writer has run twice on a raw input with a duplicated abstract, and
\* a partition holds two records
C10_Witness ==
    /\ runs = 2
    /\ Len(chain(raw)) > Len(CleanedRaw)
    /\ \E name \in DOMAIN clean : Len(clean[name]) = 2

-----------------------------------------------------------------------------
(* Properties of the training set, checked under SpecTrain.                *)

IsJudgment(ex) == "answer" \in DOMAIN ex

\* the judgments of all files, label by label
RECURSIVE judgments_from(_, _)
judgments_from(files, n) ==
    IF n > Len(LABELS) THEN <<>>
    ELSE SelectSeq(files[LABELS[n]], IsJudgment) \o judgments_from(files, n + 1)

\* the files without their ignore judgments
NotIgnored(ex) == ~(IsJudgment(ex) /\ ex.answer = "ignore")
WithoutIgnore(files) == [l \in DOMAIN files |-> SelectSeq(files[l], NotIgnored)]

\* C7 (SpecTrain): the result of get_train_stream holds one example per
\* distinct text, and the categories of that example hold every label
\* judged (accept or reject) for the text in any file.
C7_OneExamplePerText ==
    examples # <<>> =>
        LET out == examples[1]
        IN  /\ \A i \in 1..Len(out) : \A j \in 1..Len(out) :
                  i < j => out[i].text # out[j].text
            /\ \A l \in LabelSet : \A n \in 1..Len(annot[l]) :
                  (IsJudgment(annot[l][n]) /\ annot[l][n].answer # "ignore") =>
                      \E i \in 1..Len(out) :
                          /\ out[i].text = annot[l][n].text
                          /\ "categories" \in DOMAIN out[i]
                          /\ l \in DOMAIN out[i].categories

\* C8 (SpecTrain): the result of get_train_stream is the same with and
\* without the ignore judgments, and an accept judgment gives its label 1,
\* a lone reject judgment 0.
C8_IgnoreExcluded ==
    examples # <<>> =>
        /\ examples[1] = get_train_stream(WithoutIgnore(annot))
        /\ \A l \in LabelSet :
              (Len(annot[l]) = 1 /\ IsJudgment(annot[l][1])
                   /\ annot[l][1].answer # "ignore") =>
                  \E i \in 1..Len(examples[1]) :
                      /\ examples[1][i].text = annot[l][1].text
                      /\ "categories" \in DOMAIN examples[1][i]
                      /\ examples[1][i].categories[l] =
                            (IF annot[l][1].answer = "accept" THEN 1 ELSE 0)

\* What the two helpers that get_train_stream leaves out would give on the
\* judgments: one example per text, nothing from an ignore judgment.
Accumulated(files) ==
    accumulate_train_stream(sentence_data_to_train_format(judgments_from(files, 1)))

HelpersOneExamplePerText ==
    LET out == Accumulated(annot)
    IN  /\ \A i \in 1..Len(out) : \A j \in 1..Len(out) :
              i < j => out[i].text # out[j].text
        /\ \A l \in LabelSet : \A n \in 1..Len(annot[l]) :
              (IsJudgment(annot[l][n]) /\ annot[l][n].answer # "ignore") =>
                  \E i \in 1..Len(out) :
                      /\ out[i].text = annot[l][n].text
                      /\ l \in DOMAIN out[i].categories

HelpersIgnoreExcluded == Accumulated(annot) = Accumulated(WithoutIgnore(annot))

-----------------------------------------------------------------------------
(* Assignment against assembly, checked under Spec.                        *)

\* the entries of the content list of section l that carry an abstract
EntriesOf(l, abstract) ==
    {i \in 1..Len(site[l]) : site[l][i].abstract = abstract}

\* C11: every label that the section assignment attached to a record is kept
\* by get_site_content: the content list of the label holds exactly one
\* entry with the record's abstract.
C11_MembershipKept ==
    pc = "built" =>
        \A n \in 1..Len(recs) : \A l \in recs[n].sections :
            Cardinality(EntriesOf(l, recs[n].abstract)) = 1

\* The same for the records that are the first of their abstract in the
\* stream: a record yielded several times is one object, so the copy that
\* the deduplication keeps carries every label the record acquired.
MembershipKeptForFirstCopy ==
    pc = "built" =>
        \A n \in 1..Len(recs) : \A l \in recs[n].sections :
            (\A m \in 1..(n - 1) : recs[m].abstract # recs[n].abstract) =>
                Cardinality(EntriesOf(l, recs[n].abstract)) = 1

\* a record yielded twice that acquired a label only at its second yield
\* is in the content lists of both of its labels
LateLabelKept ==
    /\ pc = "built"
    /\ \E n \in 1..Len(recs) :
          /\ Cardinality(recs[n].sections) = 2
          /\ Cardinality({i \in 1..Len(emitted) : emitted[i] = n}) = 2
          /\ \A l \in recs[n].sections :
                Cardinality(EntriesOf(l, recs[n].abstract)) = 1

====
